---- MODULE Spec2Model ----
(***************************************************************************)
(* gpxsplit.py: convert the tracks of 1..n GPX files into routes of at     *)
(* most max_route_length points and write them to one or to several files. *)
(*                                                                         *)
(* Strings are sequences of one-character strings, so that formatting,     *)
(* path splitting and name building are computed and not assumed.          *)
(* A point is an object identity (a number); its name lives in the heap    *)
(* point_name, because segments and routes share the same point objects.   *)
(***************************************************************************)
EXTENDS Integers, Sequences, FiniteSets, TLC

VARIABLES argv, args, pc, dirs, files, routes_new, gpx, file_idx, route_idx,
          track_idx, segment_idx, point_idx, route_new_idx, point_name,
          loaded_name, file_start, parsed_nodes

vars == <<argv, args, pc, dirs, files, routes_new, gpx, file_idx, route_idx,
          track_idx, segment_idx, point_idx, route_new_idx, point_name,
          loaded_name, file_start, parsed_nodes>>

(***************************************************************************)
(* Bounds of the model.                                                    *)
(***************************************************************************)
\* tracks + segments + points of all documents parsed in one run
MaxNodes == 6
\* largest max_route_length given on the command line
MaxRouteLength == 2

(***************************************************************************)
(* Values.                                                                 *)
(***************************************************************************)
None == <<"<None>">>

SEP == "/"
DOT == "."
ZERO == "0"
MINUS == "-"
UNDERSCORE == <<"_">>
DIGITS == <<"0", "1", "2", "3", "4", "5", "6", "7", "8", "9">>
ROUTE_SPLIT == <<"_", "r", "o", "u", "t", "e", "_", "s", "p", "l", "i", "t">>
GPX_EXT == <<".", "g", "p", "x">>
DEFAULT_OUTPUTNAME == <<"o", "u", "t", "p", "u", "t", ".", "g", "p", "x">>
DEFAULT_OUTPUT_DIR == <<".", "/">>
DEFAULT_MAX_ROUTE_LENGTH == 250
ROUTE_IDX_WIDTH == 3

(***************************************************************************)
(* str(n), int(s) and the format specification "0<width>" of an integer.   *)
(***************************************************************************)
RECURSIVE StrNat(_)
StrNat(n) == IF n < 10 THEN <<DIGITS[n + 1]>>
             ELSE StrNat(n \div 10) \o <<DIGITS[(n % 10) + 1]>>

Str(n) == IF n < 0 THEN <<MINUS>> \o StrNat(-n) ELSE StrNat(n)

RECURSIVE Zeros(_)
Zeros(k) == IF k <= 0 THEN <<>> ELSE <<ZERO>> \o Zeros(k - 1)

\* f"{n:0{width}}": sign first, then zeros up to the width, then the digits
FormatZero(n, width) ==
    LET sign == IF n < 0 THEN <<MINUS>> ELSE <<>>
        digs == StrNat(IF n < 0 THEN -n ELSE n)
    IN  sign \o Zeros(width - Len(sign) - Len(digs)) \o digs

IsDigit(c) == \E d \in 1..10 : DIGITS[d] = c

DigitValue(c) == (CHOOSE d \in 1..10 : DIGITS[d] = c) - 1

RECURSIVE NatOf(_)
NatOf(s) == IF Len(s) = 0 THEN 0
            ELSE 10 * NatOf(SubSeq(s, 1, Len(s) - 1)) + DigitValue(s[Len(s)])

\* int(s) accepts an optional sign followed by at least one digit
IsIntToken(s) ==
    LET body == IF Len(s) > 0 /\ s[1] = MINUS THEN Tail(s) ELSE s
    IN  Len(body) > 0 /\ \A i \in 1..Len(body) : IsDigit(body[i])

IntOf(s) == IF s[1] = MINUS THEN -NatOf(Tail(s)) ELSE NatOf(s)

\* math.ceil(math.log10(m)) for m >= 1: the least w with 10^w >= m
RECURSIVE CeilLog10From(_, _, _)
CeilLog10From(m, w, p) == IF p >= m THEN w ELSE CeilLog10From(m, w + 1, 10 * p)

CeilLog10(m) == CeilLog10From(m, 0, 1)

(***************************************************************************)
(* posixpath: rfind, basename, dirname, splitext, join.                    *)
(***************************************************************************)
\* p.rfind(c) + 1: the 1-based position of the last c, 0 when there is none
RFind(p, c) == IF \E i \in 1..Len(p) : p[i] = c
               THEN CHOOSE i \in 1..Len(p) :
                        /\ p[i] = c
                        /\ \A j \in (i + 1)..Len(p) : p[j] # c
               ELSE 0

RECURSIVE RStrip(_, _)
RStrip(p, c) == IF Len(p) > 0 /\ p[Len(p)] = c
                THEN RStrip(SubSeq(p, 1, Len(p) - 1), c)
                ELSE p

BaseName(p) == SubSeq(p, RFind(p, SEP) + 1, Len(p))

DirName(p) ==
    LET head == SubSeq(p, 1, RFind(p, SEP))
    IN  IF Len(head) > 0 /\ \E i \in 1..Len(head) : head[i] # SEP
        THEN RStrip(head, SEP)
        ELSE head

\* os.path.splitext(p)[0]: cut at the last dot of the last component, unless
\* only dots precede it in that component
SplitExtRoot(p) ==
    LET sepIndex == RFind(p, SEP)
        dotIndex == RFind(p, DOT)
    IN  IF /\ dotIndex > sepIndex
           /\ \E i \in (sepIndex + 1)..(dotIndex - 1) : p[i] # DOT
        THEN SubSeq(p, 1, dotIndex - 1)
        ELSE p

Join(a, b) == IF Len(a) = 0 \/ a[Len(a)] = SEP THEN a \o b
              ELSE a \o <<SEP>> \o b

\* the directory a relative path names: its components without "" and "."
RECURSIVE Components(_)
Components(p) ==
    IF Len(p) = 0 THEN <<>>
    ELSE LET i == RFind(p, SEP)
             last == SubSeq(p, i + 1, Len(p))
             init == IF i = 0 THEN <<>> ELSE Components(SubSeq(p, 1, i - 1))
         IN  IF last = <<>> \/ last = <<DOT>> THEN init ELSE Append(init, last)

IsDir(p, ds) == Len(p) > 0 /\ Components(p) \in ds

Prefixes(s) == {SubSeq(s, 1, k) : k \in 0..Len(s)}

(***************************************************************************)
(* The result of gpxpy.parse: a document is a sequence of tracks, a track  *)
(* a sequence of segments, a segment a sequence of points.  What a file    *)
(* holds is the environment's choice, made when the file is parsed.        *)
(***************************************************************************)
RECURSIVE SumSeq(_)
SumSeq(s) == IF Len(s) = 0 THEN 0 ELSE s[1] + SumSeq(Tail(s))

\* the segment lengths of one track: every segment and every point is a node
RECURSIVE SegLists(_)
SegLists(b) ==
    IF b < 0 THEN {}
    ELSE {<<>>} \cup UNION {{<<l>> \o rest : rest \in SegLists(b - 1 - l)} :
                            l \in 0..(b - 1)}

TrackNodes(lens) == 1 + Len(lens) + SumSeq(lens)

RECURSIVE DocShapes(_)
DocShapes(b) ==
    IF b < 0 THEN {}
    ELSE {<<>>} \cup UNION {{<<t>> \o rest : rest \in DocShapes(b - TrackNodes(t))} :
                            t \in SegLists(b - 1)}

DocNodes(shape) == SumSeq([t \in 1..Len(shape) |-> TrackNodes(shape[t])])

DocPoints(shape) == SumSeq([t \in 1..Len(shape) |-> SumSeq(shape[t])])

\* the points base+1 .. base+n, in order
PointRange(base, n) == [i \in 1..n |-> base + i]

BuildTrack(lens, base) ==
    [s \in 1..Len(lens) |->
        PointRange(base + SumSeq(SubSeq(lens, 1, s - 1)), lens[s])]

BuildDoc(shape, base) ==
    [t \in 1..Len(shape) |->
        BuildTrack(shape[t], base + DocPoints(SubSeq(shape, 1, t - 1)))]

\* a point read from a file has no name or the name the file gives it
LOADED_NAMES == {None, <<"w">>}

(***************************************************************************)
(* gpx.simplify(max_distance): every segment keeps its first and its last  *)
(* point and any choice of the points between them (the distances decide;  *)
(* they are the environment's).  A segment of fewer than 3 points is kept. *)
(***************************************************************************)
RECURSIVE KeepPoints(_, _, _)
KeepPoints(seg, kept, i) ==
    IF i > Len(seg) THEN <<>>
    ELSE (IF i \in kept THEN <<seg[i]>> ELSE <<>>) \o KeepPoints(seg, kept, i + 1)

SimplifiedSegments(seg) ==
    IF Len(seg) < 3 THEN {seg}
    ELSE {KeepPoints(seg, {1, Len(seg)} \cup inner, 1) :
              inner \in SUBSET (2..(Len(seg) - 1))}

RECURSIVE SeqProduct(_)
SeqProduct(sets) ==
    IF Len(sets) = 0 THEN {<<>>}
    ELSE {<<x>> \o rest : x \in sets[1], rest \in SeqProduct(Tail(sets))}

SimplifiedDocs(g) ==
    SeqProduct([t \in 1..Len(g) |->
        SeqProduct([s \in 1..Len(g[t]) |-> SimplifiedSegments(g[t][s])])])

(***************************************************************************)
(* The command lines of the model.                                         *)
(***************************************************************************)
FILE_A == <<"a", ".", "g", "p", "x">>
FILE_DA == <<"d", "/", "a", ".", "g", "p", "x">>
FILE_B == <<"b", ".", "g", "p", "x">>
OUT_O == <<"o", ".", "g", "p", "x">>

InputLists == {<<FILE_A>>, <<FILE_DA>>, <<FILE_A, FILE_B>>, <<FILE_A, FILE_DA>>,
               <<FILE_B, FILE_A, FILE_DA>>}

\* --max_route_length: absent (None), an integer token, or no integer at all
LengthTokens == {Str(m) : m \in (-1)..MaxRouteLength} \cup {<<"x">>, None}

OutputDirs == {DEFAULT_OUTPUT_DIR, <<>>, <<"a">>, <<"a", "/">>,
               <<"a", "/", "b">>, <<"a", "/", "b", "/">>}

\* the directories that exist when the program starts; <<>> is the working
\* directory
InitialDirs == {{<<>>}, {<<>>, <<<<"a">>>>}, {<<>>, <<<<"a">>>>, <<<<"a">>, <<"b">>>>}}

Argv(input, output, simplify, output_dir, splitfiles, max_route_length) ==
    [input |-> input, output |-> output, simplify |-> simplify,
     output_dir |-> output_dir, splitfiles |-> splitfiles,
     max_route_length |-> max_route_length]

\* chunking and naming: every input list, every length token, both outputs
ChunkCommands ==
    {Argv(i, None, FALSE, None, sf, m) :
        i \in InputLists, sf \in BOOLEAN, m \in LengthTokens}

\* simplification before chunking
SimplifyCommands ==
    {Argv(<<FILE_DA>>, None, TRUE, None, FALSE, Str(m)) : m \in 1..MaxRouteLength}

\* output directory and output name
OutputCommands ==
    {Argv(i, o, FALSE, d, sf, Str(MaxRouteLength)) :
        i \in {<<FILE_DA>>, <<FILE_A, FILE_B>>}, o \in {None, OUT_O},
        d \in OutputDirs, sf \in BOOLEAN}

(***************************************************************************)
(* The chunker (lines 112-135).                                            *)
(***************************************************************************)
\* range(0, stop, step) for stop >= 0 and step # 0
RangeFromZero(stop, step) ==
    IF step > 0 THEN [k \in 1..((stop + step - 1) \div step) |-> (k - 1) * step]
    ELSE <<>>

\* a variant of Slice whose upper end is inclusive: points[a:b+1]
SliceInclusive(points, a, b) ==
    SubSeq(points, a + 1, IF b + 1 < Len(points) THEN b + 1 ELSE Len(points))

\* points[a:b] for 0 <= a <= b
Slice(points, a, b) ==
    SubSeq(points, a + 1, IF b < Len(points) THEN b ELSE Len(points))

\* a variant of Subsegments that stops before a last, shorter window
SubsegmentsFullOnly(points, m) ==
    LET starts == RangeFromZero(IF m > 0 THEN Len(points) - (Len(points) % m)
                                ELSE Len(points), m)
    IN  [k \in 1..Len(starts) |-> Slice(points, starts[k], starts[k] + m)]

Subsegments(points, m) ==
    LET starts == RangeFromZero(Len(points), m)
    IN  [k \in 1..Len(starts) |-> Slice(points, starts[k], starts[k] + m)]

\* a variant of RouteName that keeps the extension (line 123)
RouteNameWithExt(idx, gpxfile) ==
    FormatZero(idx, ROUTE_IDX_WIDTH) \o UNDERSCORE \o BaseName(gpxfile)

RouteName(idx, gpxfile) ==
    FormatZero(idx, ROUTE_IDX_WIDTH) \o UNDERSCORE \o SplitExtRoot(BaseName(gpxfile))

\* a variant of PointLabel that numbers the points of every route from 1
PointLabelPerRoute(idx, m) == FormatZero(((idx - 1) % m) + 1, CeilLog10(m))

PointLabel(idx, m) == FormatZero(idx, CeilLog10(m))

\* a variant of Backfill without the test of line 129
BackfillAlways(name, label) == label

Backfill(name, label) == IF name = None THEN label ELSE name

NextPointIdx(idx) == idx + 1

\* a variant of NextRouteIdx without the increment of line 135
NextRouteIdxStuck(idx) == idx

NextRouteIdx(idx) == idx + 1

\* for point in sublist: point_idx += 1; name the point if it has no name
RECURSIVE LabelPoints(_, _, _, _)
LabelPoints(sublist, i, st, m) ==
    IF i > Len(sublist) THEN st
    ELSE LET idx == NextPointIdx(st.point_idx)
             point == sublist[i]
         IN  LabelPoints(sublist, i + 1,
                 [st EXCEPT !.point_idx = idx,
                            !.point_name[point] = Backfill(@, PointLabel(idx, m))],
                 m)

\* for sublist_idx, sublist in enumerate(subsegments): one route per sublist
RECURSIVE RouteLoop(_, _, _, _, _)
RouteLoop(subsegments, k, st, gpxfile, m) ==
    IF k > Len(subsegments) THEN st
    ELSE LET routename == RouteName(st.route_idx, gpxfile)
             named == LabelPoints(subsegments[k], 1, st, m)
             route_new == [name |-> routename, points |-> subsegments[k]]
         IN  RouteLoop(subsegments, k + 1,
                 [named EXCEPT !.routes_new = Append(@, route_new),
                               !.route_idx = NextRouteIdx(@)],
                 gpxfile, m)

(***************************************************************************)
(* The writer (lines 141-160).                                             *)
(***************************************************************************)
\* a variant of SplitFilename without the index of the route
SplitFilenameNoIndex(idx, output, m) ==
    output \o ROUTE_SPLIT \o Str(m) \o GPX_EXT

SplitFilename(idx, output, m) ==
    Str(idx) \o UNDERSCORE \o output \o ROUTE_SPLIT \o Str(m) \o GPX_EXT

CombinedFilename(output, m) == output \o ROUTE_SPLIT \o Str(m) \o GPX_EXT

\* open(path, "w") needs the directory of path to exist
CanOpen(path, ds) == Components(DirName(path)) \in ds

\* a variant of AfterFile that writes inside the loop over the files
AfterFileWriteEach(next_idx, n) == "write"

\* after the last file of the loop of line 99 comes the writer of line 141
AfterFile(next_idx, n) == IF next_idx < n THEN "parse" ELSE "write"

(***************************************************************************)
(* The program.                                                            *)
(***************************************************************************)
DefaultArgs ==
    [input |-> <<>>, output |-> None, simplify |-> FALSE,
     output_dir |-> DEFAULT_OUTPUT_DIR, splitfiles |-> FALSE,
     max_route_length |-> DEFAULT_MAX_ROUTE_LENGTH]

Commands == ChunkCommands \cup SimplifyCommands \cup OutputCommands

Init ==
    /\ argv \in Commands
    /\ dirs \in IF argv.output_dir = None THEN {{<<>>}} ELSE InitialDirs
    /\ args = DefaultArgs
    /\ pc = "parse_args"
    /\ files = <<>>
    /\ routes_new = <<>>
    /\ gpx = <<>>
    /\ file_idx = 0
    /\ route_idx = 0
    /\ track_idx = 0
    /\ segment_idx = 0
    /\ point_idx = 0
    /\ route_new_idx = 0
    /\ point_name = <<>>
    /\ loaded_name = <<>>
    /\ file_start = 0
    /\ parsed_nodes = 0

\* line 71: type=int rejects a token that is no integer, and nothing else
ParseArgs ==
    /\ pc = "parse_args"
    /\ IF argv.max_route_length # None /\ ~IsIntToken(argv.max_route_length)
       THEN /\ pc' = "usage_error"
            /\ args' = args
       ELSE /\ pc' = "makedirs"
            /\ args' = [input |-> argv.input,
                        output |-> argv.output,
                        simplify |-> argv.simplify,
                        output_dir |-> IF argv.output_dir = None
                                       THEN DEFAULT_OUTPUT_DIR
                                       ELSE argv.output_dir,
                        splitfiles |-> argv.splitfiles,
                        max_route_length |->
                            IF argv.max_route_length = None
                            THEN DEFAULT_MAX_ROUTE_LENGTH
                            ELSE IntOf(argv.max_route_length)]
    /\ UNCHANGED <<argv, dirs, files, routes_new, gpx, file_idx, route_idx,
                   track_idx, segment_idx, point_idx, route_new_idx,
                   point_name, loaded_name, file_start, parsed_nodes>>

\* line 73: os.makedirs(os.path.dirname(args.output_dir), exist_ok=True)
MakeDirs ==
    /\ pc = "makedirs"
    /\ LET name == DirName(args.output_dir)
       IN  IF name = <<>>
           THEN \* mkdir("") raises FileNotFoundError
                /\ pc' = "crashed"
                /\ dirs' = dirs
           ELSE \/ /\ dirs' = dirs \cup Prefixes(Components(name))
                   /\ pc' = "output_name"
                \/ \* the system refuses to create a missing directory
                   /\ Components(name) \notin dirs
                   /\ pc' = "crashed"
                   /\ dirs' = dirs
    /\ UNCHANGED <<argv, args, files, routes_new, gpx, file_idx, route_idx,
                   track_idx, segment_idx, point_idx, route_new_idx,
                   point_name, loaded_name, file_start, parsed_nodes>>

\* lines 76-97
OutputName ==
    /\ pc = "output_name"
    /\ args' = [args EXCEPT !.output =
                    IF args.output = None
                    THEN IF Len(args.input) = 1
                         THEN SplitExtRoot(BaseName(args.input[1]))
                         ELSE SplitExtRoot(DEFAULT_OUTPUTNAME)
                    ELSE SplitExtRoot(args.output)]
    /\ routes_new' = <<>>
    /\ file_idx' = 0
    /\ pc' = "parse"
    /\ UNCHANGED <<argv, dirs, files, gpx, route_idx, track_idx, segment_idx,
                   point_idx, route_new_idx, point_name, loaded_name,
                   file_start, parsed_nodes>>

\* lines 99-101: gpx = gpxpy.parse(gpxfile), which raises on a malformed file
ParseFile ==
    /\ pc = "parse"
    /\ \/ \E shape \in DocShapes(MaxNodes - parsed_nodes) :
          \E names \in IF DocPoints(shape) = 0 THEN {<<>>}
                       ELSE [1..DocPoints(shape) -> LOADED_NAMES] :
             /\ gpx' = BuildDoc(shape, Len(point_name))
             /\ point_name' = point_name \o names
             /\ loaded_name' = loaded_name \o names
             /\ parsed_nodes' = parsed_nodes + DocNodes(shape)
             /\ file_start' = Len(routes_new)
             /\ pc' = "simplify"
       \/ /\ pc' = "crashed"
          /\ UNCHANGED <<gpx, point_name, loaded_name, parsed_nodes, file_start>>
    /\ UNCHANGED <<argv, args, dirs, files, routes_new, file_idx, route_idx,
                   track_idx, segment_idx, point_idx, route_new_idx>>

\* lines 103-110
Simplify ==
    /\ pc = "simplify"
    /\ gpx' \in IF args.simplify THEN SimplifiedDocs(gpx) ELSE {gpx}
    /\ route_idx' = 0
    /\ track_idx' = 0
    /\ pc' = "track"
    /\ UNCHANGED <<argv, args, dirs, files, routes_new, file_idx, segment_idx,
                   point_idx, route_new_idx, point_name, loaded_name,
                   file_start, parsed_nodes>>

\* lines 110-112: the next track of the file
TrackLoop ==
    /\ pc = "track"
    /\ track_idx < Len(gpx)
    /\ point_idx' = 0
    /\ segment_idx' = 0
    /\ pc' = "segment"
    /\ UNCHANGED <<argv, args, dirs, files, routes_new, gpx, file_idx,
                   route_idx, track_idx, route_new_idx, point_name,
                   loaded_name, file_start, parsed_nodes>>

\* lines 137-141: the file has no more tracks
FileDone ==
    /\ pc = "track"
    /\ track_idx >= Len(gpx)
    /\ file_idx' = file_idx + 1
    /\ route_new_idx' = 0
    /\ pc' = AfterFile(file_idx + 1, Len(args.input))
    /\ UNCHANGED <<argv, args, dirs, files, routes_new, gpx, route_idx,
                   track_idx, segment_idx, point_idx, point_name, loaded_name,
                   file_start, parsed_nodes>>

\* lines 112-135: one segment becomes routes
SegmentLoop ==
    /\ pc = "segment"
    /\ segment_idx < Len(gpx[track_idx + 1])
    /\ LET points == gpx[track_idx + 1][segment_idx + 1]
           m == args.max_route_length
       IN  IF m = 0
           THEN \* range() arg 3 must not be zero
                /\ pc' = "crashed"
                /\ UNCHANGED <<routes_new, route_idx, point_idx, point_name,
                               segment_idx>>
           ELSE LET st == RouteLoop(Subsegments(points, m), 1,
                              [route_idx |-> route_idx, point_idx |-> point_idx,
                               point_name |-> point_name,
                               routes_new |-> routes_new],
                              args.input[file_idx + 1], m)
                IN  /\ routes_new' = st.routes_new
                    /\ route_idx' = st.route_idx
                    /\ point_idx' = st.point_idx
                    /\ point_name' = st.point_name
                    /\ segment_idx' = segment_idx + 1
                    /\ pc' = pc
    /\ UNCHANGED <<argv, args, dirs, files, gpx, file_idx, track_idx,
                   route_new_idx, loaded_name, file_start, parsed_nodes>>

\* line 112: the track has no more segments
TrackDone ==
    /\ pc = "segment"
    /\ segment_idx >= Len(gpx[track_idx + 1])
    /\ track_idx' = track_idx + 1
    /\ pc' = "track"
    /\ UNCHANGED <<argv, args, dirs, files, routes_new, gpx, file_idx,
                   route_idx, segment_idx, point_idx, route_new_idx,
                   point_name, loaded_name, file_start, parsed_nodes>>

\* lines 143-151: one file for the next route
WriteSplit ==
    /\ pc = "write"
    /\ args.splitfiles
    /\ route_new_idx < Len(routes_new)
    /\ LET filename == SplitFilename(route_new_idx, args.output,
                                     args.max_route_length)
           path == Join(args.output_dir, filename)
       IN  IF CanOpen(path, dirs)
           THEN /\ files' = (path :> <<routes_new[route_new_idx + 1]>>) @@ files
                /\ route_new_idx' = route_new_idx + 1
                /\ pc' = pc
           ELSE /\ pc' = "crashed"
                /\ UNCHANGED <<files, route_new_idx>>
    /\ UNCHANGED <<argv, args, dirs, routes_new, gpx, file_idx, route_idx,
                   track_idx, segment_idx, point_idx, point_name, loaded_name,
                   file_start, parsed_nodes>>

\* line 152: every route has its file
WriteSplitDone ==
    /\ pc = "write"
    /\ args.splitfiles
    /\ route_new_idx >= Len(routes_new)
    /\ pc' = "done"
    /\ UNCHANGED <<argv, args, dirs, files, routes_new, gpx, file_idx,
                   route_idx, track_idx, segment_idx, point_idx, route_new_idx,
                   point_name, loaded_name, file_start, parsed_nodes>>

\* lines 154-160: one file for all routes
WriteCombined ==
    /\ pc = "write"
    /\ ~args.splitfiles
    /\ LET filename == CombinedFilename(args.output, args.max_route_length)
           path == Join(args.output_dir, filename)
       IN  IF CanOpen(path, dirs)
           THEN /\ files' = (path :> routes_new) @@ files
                /\ pc' = "done"
           ELSE /\ pc' = "crashed"
                /\ files' = files
    /\ UNCHANGED <<argv, args, dirs, routes_new, gpx, file_idx, route_idx,
                   track_idx, segment_idx, point_idx, route_new_idx,
                   point_name, loaded_name, file_start, parsed_nodes>>

Next ==
    \/ ParseArgs
    \/ MakeDirs
    \/ OutputName
    \/ ParseFile
    \/ Simplify
    \/ TrackLoop
    \/ FileDone
    \/ SegmentLoop
    \/ TrackDone
    \/ WriteSplit
    \/ WriteSplitDone
    \/ WriteCombined

Spec == Init /\ [][Next]_vars

(***************************************************************************)
(* What the properties speak about.                                        *)
(***************************************************************************)
RECURSIVE Concat(_)
Concat(ss) == IF Len(ss) = 0 THEN <<>> ELSE ss[1] \o Concat(Tail(ss))

\* the chunker is at work on the file args.input[file_idx + 1]
Chunking == pc \in {"track", "segment"}

\* the file has been chunked completely
FileChunked == pc = "track" /\ track_idx = Len(gpx)

\* the points of the part of track t the chunker has been through
ChunkedOfTrack(t) ==
    IF t <= track_idx THEN Concat(gpx[t])
    ELSE IF t = track_idx + 1 /\ pc = "segment"
         THEN Concat(SubSeq(gpx[t], 1, segment_idx))
         ELSE <<>>

\* the points of the file the chunker has been through, in the file's order
ChunkedPoints == Concat([t \in 1..Len(gpx) |-> ChunkedOfTrack(t)])

\* the routes generated from the current file, in generation order
FileRoutes == SubSeq(routes_new, file_start + 1, Len(routes_new))

RoutePoints(routes) == Concat([k \in 1..Len(routes) |-> routes[k].points])

\* ceil(l / m) for m >= 1
CeilDiv(l, m) == CHOOSE q \in 0..l : q * m >= l /\ (q - 1) * m < l

\* the digits before the first underscore of a route name, and what follows it
FirstUnderscore(name) ==
    CHOOSE i \in 1..Len(name) :
        name[i] = "_" /\ \A j \in 1..(i - 1) : name[j] # "_"

NamePrefix(name) == SubSeq(name, 1, FirstUnderscore(name) - 1)

NameBase(name) == SubSeq(name, FirstUnderscore(name) + 1, Len(name))

AllDigits(s) == \A i \in 1..Len(s) : IsDigit(s[i])

\* the base name, without directory and extension, of the input files
ExpectedBase(gpxfile) ==
    CASE gpxfile = FILE_A -> <<"a">>
      [] gpxfile = FILE_DA -> <<"a">>
      [] gpxfile = FILE_B -> <<"b">>

\* C1: for max_route_length >= 1 the routes generated from a file, put end to
\* end in generation order, are the points of the file's segments the chunker
\* has been through (all of them once the file is chunked), in the original
\* order (after simplification): none dropped, duplicated or reordered.
C1_Lossless ==
    (Chunking /\ args.max_route_length >= 1)
        => RoutePoints(FileRoutes) = ChunkedPoints

C1_Witness ==
    /\ FileChunked
    /\ args.simplify
    /\ args.max_route_length = 1
    /\ \E t \in 1..Len(gpx) : \E s \in 1..Len(gpx[t]) : Len(gpx[t][s]) >= 2
    /\ Len(FileRoutes) >= 2

\* C2: for max_route_length M >= 1, chunking a segment of L points adds
\* exactly ceil(L/M) routes and adds as much to the route index; all of them
\* but the last have M points and the last has L - M*(groups-1) points, in
\* 1..M; a segment without points adds no route and leaves the route index;
\* M = 1 gives one route per point.
C2_GroupSizes ==
    [][(pc = "segment" /\ segment_idx' = segment_idx + 1
            /\ args.max_route_length >= 1)
        => LET m == args.max_route_length
               l == Len(gpx[track_idx + 1][segment_idx + 1])
               before == Len(routes_new)
               groups == Len(routes_new') - before
           IN  /\ groups = CeilDiv(l, m)
               /\ route_idx' = route_idx + groups
               /\ SubSeq(routes_new', 1, before) = routes_new
               /\ \A k \in 1..groups :
                      LET size == Len(routes_new'[before + k].points)
                      IN  /\ size \in 1..m
                          /\ k < groups => size = m
                          /\ k = groups => size = l - m * (groups - 1)
               /\ l = 0 => routes_new' = routes_new /\ route_idx' = route_idx
               /\ m = 1 => groups = l]_vars

C2_Witness ==
    /\ pc = "segment"
    /\ segment_idx >= 1
    /\ args.max_route_length = 2
    /\ Len(gpx[track_idx + 1][segment_idx]) = 3
    /\ Len(FileRoutes) = 2
    /\ Len(FileRoutes[1].points) = 2
    /\ Len(FileRoutes[2].points) = 1

\* C3: the k-th route generated from a file, k counted from 0 over all its
\* tracks and segments, is named by k in decimal, padded with zeros to at
\* least 3 digits, an underscore, and the file's base name without directory
\* and extension.
C3_RouteNames ==
    Chunking =>
        \A k \in 1..Len(FileRoutes) :
            LET name == FileRoutes[k].name
                prefix == NamePrefix(name)
            IN  /\ \E i \in 1..Len(name) : name[i] = "_"
                /\ AllDigits(prefix)
                /\ NatOf(prefix) = k - 1
                /\ Len(prefix) >= 3
                /\ Len(prefix) > 3 => prefix[1] # ZERO
                /\ NameBase(name) = ExpectedBase(args.input[file_idx + 1])

C3_Witness ==
    /\ FileChunked
    /\ args.input[file_idx + 1] = FILE_DA
    /\ Len(gpx) = 1
    /\ Len(gpx[1]) = 2
    /\ Len(gpx[1][1]) >= 1
    /\ Len(gpx[1][2]) >= 1
    /\ Len(FileRoutes) = 3
    /\ FileRoutes[3].name = <<"0", "0", "2", "_", "a">>

\* C4, as claimed: over a whole run the names of all generated routes are
\* pairwise distinct, their numeric prefixes strictly increase in generation
\* order, and the route index never falls below an index it has given out.
C4_RunWideUnique ==
    pc \notin {"parse_args", "makedirs", "output_name", "usage_error"} =>
        /\ \A i, j \in 1..Len(routes_new) :
               i < j => /\ routes_new[i].name # routes_new[j].name
                        /\ NatOf(NamePrefix(routes_new[i].name))
                               < NatOf(NamePrefix(routes_new[j].name))
        /\ Chunking =>
               \A i \in 1..Len(routes_new) :
                   NatOf(NamePrefix(routes_new[i].name)) < route_idx

\* C4, amended: the names of the routes generated from one input file are
\* pairwise distinct, their numeric prefixes strictly increase in generation
\* order, and while the file is chunked the route index is above every index
\* given out for it (it restarts at 0 with every input file); over the whole
\* run the names are pairwise distinct when the base names of the input files
\* are.
C4_PerFileUnique ==
    pc \notin {"parse_args", "makedirs", "output_name", "usage_error"} =>
        /\ \A i, j \in 1..Len(FileRoutes) :
               i < j => /\ FileRoutes[i].name # FileRoutes[j].name
                        /\ NatOf(NamePrefix(FileRoutes[i].name))
                               < NatOf(NamePrefix(FileRoutes[j].name))
        /\ Chunking =>
               \A i \in 1..Len(FileRoutes) :
                   NatOf(NamePrefix(FileRoutes[i].name)) < route_idx
        /\ (\A f, g \in 1..Len(args.input) :
                f # g => ExpectedBase(args.input[f]) # ExpectedBase(args.input[g]))
               => \A i, j \in 1..Len(routes_new) :
                      i < j => routes_new[i].name # routes_new[j].name

C4_Witness ==
    /\ FileChunked
    /\ file_idx = 1
    /\ args.input = <<FILE_A, FILE_B>>
    /\ file_start >= 1
    /\ Len(FileRoutes) >= 1
    /\ routes_new[1].name = <<"0", "0", "0", "_", "a">>
    /\ FileRoutes[1].name = <<"0", "0", "0", "_", "b">>

C6_BackfillOnly ==
    \A point \in 1..Len(point_name) :
        /\ loaded_name[point] # None => point_name[point] = loaded_name[point]
        /\ (\E k \in 1..Len(routes_new) :
                \E i \in 1..Len(routes_new[k].points) :
                    routes_new[k].points[i] = point)
               => point_name[point] # None
        /\ (\A k \in 1..Len(routes_new) :
                \A i \in 1..Len(routes_new[k].points) :
                    routes_new[k].points[i] # point)
               => point_name[point] = loaded_name[point]

C6_Witness ==
    \E k \in 1..Len(routes_new) :
        /\ Len(routes_new[k].points) = 2
        /\ loaded_name[routes_new[k].points[1]] = <<"w">>
        /\ point_name[routes_new[k].points[1]] = <<"w">>
        /\ loaded_name[routes_new[k].points[2]] = None
        /\ point_name[routes_new[k].points[2]] = <<"2">>

\* the name of the i-th file of split mode and of the file of combined mode
ExpectedSplitPath(i) ==
    Join(args.output_dir,
         Str(i) \o <<"_">> \o args.output
             \o <<"_", "r", "o", "u", "t", "e", "_", "s", "p", "l", "i", "t">>
             \o Str(args.max_route_length) \o <<".", "g", "p", "x">>)

ExpectedCombinedPath ==
    Join(args.output_dir,
         args.output
             \o <<"_", "r", "o", "u", "t", "e", "_", "s", "p", "l", "i", "t">>
             \o Str(args.max_route_length) \o <<".", "g", "p", "x">>)

C8_OutputDirExists ==
    /\ pc \in {"output_name", "parse", "simplify", "track", "segment", "write",
              "done"} => IsDir(args.output_dir, dirs)
    /\ pc = "crashed" => DOMAIN files = {}

\* C9: a file is written only when every input file has been parsed and
\* chunked; a run that stopped before that (a file could not be parsed) has
\* written no file, in either output mode, and takes no further step, so no
\* later input file is processed.
C9_WriteAfterAllParsed ==
    /\ DOMAIN files # {} => file_idx = Len(args.input)
    /\ pc = "write" => file_idx = Len(args.input)
    /\ (pc = "crashed" /\ file_idx < Len(args.input)) =>
           /\ DOMAIN files = {}
           /\ ~ENABLED Next

C9_Witness ==
    /\ pc = "crashed"
    /\ Len(args.input) = 3
    /\ file_idx = 1
    /\ args.max_route_length >= 1
    /\ Len(routes_new) >= 1
    /\ DOMAIN files = {}

\* C10, as claimed: a --max_route_length that is no positive integer is
\* rejected when the arguments are parsed: the run goes from there to the
\* usage error and to nothing else.
C10_RejectNonPositive ==
    (argv.max_route_length # None
        /\ (~IsIntToken(argv.max_route_length)
               \/ IntOf(argv.max_route_length) <= 0))
        => pc \in {"parse_args", "usage_error"}

====
